---- MODULE Spec2Model ----
(***************************************************************************)
(* Document ingestion and retrieval-augmented question answering of        *)
(* smartcontract.ai: the processing coordinator of                         *)
(* server/routes/contracts.js (processContractAsync and its admission      *)
(* counters), the OllamaService of server/services (vector stores,         *)
(* answerQuestion) and the query route of server/routes/chat.js.           *)
(*                                                                         *)
(* Node runs every handler on one event loop: code between two awaits is   *)
(* one atomic step, and every await is a point where other handlers run.   *)
(* Each action below is one such step.                                     *)
(***************************************************************************)
EXTENDS Integers, Sequences, FiniteSets, TLC

\* ---------------------------------------------------------------- bounds

\* Documents and users of the admission specification (SpecAdm).
AdmDocs == 12
AdmUsers == 4
\* Jobs that may throw into their catch block in one run of SpecAdm.
AdmFaults == 1
\* Throws into a catch block in one run of the pipeline specification (Spec).
MaxFaults == 1
\* Concurrent requests and failing backend calls of the query specification
\* (SpecQuery).
NumQueries == 2
QueryFaults == 1
\* Longest question of the answer specification (SpecAnswer).
MaxQuestionLen == 3

\* ------------------------------------------------------ program constants

MAX_CONCURRENT_PER_USER == 3
MAX_GLOBAL_CONCURRENT == 10
\* contracts.js:248  extractedText.trim().length < 50
MIN_CONTENT_LENGTH == 50

\* Spec: one document more than a user may have in flight, so that a job is
\* deferred. SpecLive: the MAX_PER_USER + 2 uploads of spec.md section 8.
NumDocs == MAX_CONCURRENT_PER_USER + 1
LiveDocs == MAX_CONCURRENT_PER_USER + 2

\* ------------------------------------------------------------------ state

Docs == 1..AdmDocs
Users == 1..AdmUsers

VARIABLES
    owner,                  \* document -> the user who uploads it (0: id unused)
    status,                 \* contracts.status: "none" until the record is inserted
    pc,                     \* document -> position of its processContractAsync job
    processingQueue,        \* userId -> number of active processes (0: no key)
    globalProcessingCount,
    faults,                 \* throws into a job's catch block so far
    extracted,              \* document -> what extractTextFromFile gave its job
    ana,                    \* document -> its analyzeDocumentFast call
    emb,                    \* document -> its addDocumentsWithIsolation call
    embRef,                 \* document -> the store that call read from the map (0: none)
    stores,                 \* MemoryVectorStore objects, named by the job that made them
    userVectorStores,       \* userId -> the store object under that key (0: no key)
    notice,                 \* document -> the outcome of its job's notification insert
    ocr,                    \* image document -> what the calls of enhancedOCR gave
    files,                  \* upload request -> the file multer was handed (SpecUpload)
    vectorStore,            \* this.vectorStore, the one store answerQuestion searches
    chat_sessions,          \* the (contract_id, user_id) pairs that have a chat session
    qs                      \* request -> the state of its handler

jobVars == <<owner, status, pc, processingQueue, globalProcessingCount, faults>>
pipeVars ==
    <<extracted, ana, emb, embRef, stores, userVectorStores, notice, ocr, files>>
queryVars == <<vectorStore, chat_sessions, qs>>
vars == <<jobVars, pipeVars, queryVars>>

\* ----------------------------------------------------------------- strings

\* A string is the sequence of its characters.
Upper ==
    <<"A", "B", "C", "D", "E", "F", "G", "H", "I", "J", "K", "L", "M",
      "N", "O", "P", "Q", "R", "S", "T", "U", "V", "W", "X", "Y", "Z">>
LowerCase ==
    <<"a", "b", "c", "d", "e", "f", "g", "h", "i", "j", "k", "l", "m",
      "n", "o", "p", "q", "r", "s", "t", "u", "v", "w", "x", "y", "z">>

\* One character under the regular expressions' i flag
LowerChar(c) ==
    IF \E i \in DOMAIN Upper : Upper[i] = c
      THEN LowerCase[CHOOSE i \in DOMAIN Upper : Upper[i] = c]
      ELSE c

\* String.prototype.toLowerCase
ToLowerCase(s) == [i \in DOMAIN s |-> LowerChar(s[i])]

\* The characters \s matches and trim removes
IsWhitespace(c) == c \in {" ", "\t", "\n"}

\* String.prototype.trim
Trim(s) ==
    LET inked == {i \in DOMAIN s : ~IsWhitespace(s[i])}
    IN  IF inked = {} THEN <<>>
        ELSE SubSeq(s, CHOOSE i \in inked : \A j \in inked : i <= j,
                       CHOOSE i \in inked : \A j \in inked : i >= j)

\* s holds p from position i on
OccursAt(s, p, i) ==
    /\ i >= 1
    /\ i + Len(p) - 1 <= Len(s)
    /\ \A k \in 1..Len(p) : s[i + k - 1] = p[k]

\* String.prototype.includes, and a regular expression that is a literal
Includes(s, p) == \E i \in 1..(Len(s) - Len(p) + 1) : OccursAt(s, p, i)

\* socketService.js:569  the alternatives of greetingPatterns
GreetingWords ==
    { <<"h", "i">>,
      <<"h", "e", "l", "l", "o">>,
      <<"h", "e", "y">>,
      <<"g", "r", "e", "e", "t", "i", "n", "g", "s">>,
      <<"g", "o", "o", "d", " ", "m", "o", "r", "n", "i", "n", "g">>,
      <<"g", "o", "o", "d", " ", "a", "f", "t", "e", "r", "n", "o", "o", "n">>,
      <<"g", "o", "o", "d", " ", "e", "v", "e", "n", "i", "n", "g">>,
      <<"h", "o", "w", " ", "a", "r", "e", " ", "y", "o", "u">>,
      <<"w", "h", "a", "t", "'", "s", " ", "u", "p">>,
      <<"y", "o">> }

\* socketService.js:569  the class [\s!?] that may follow the greeting
GreetingTrail(c) == IsWhitespace(c) \/ c \in {"!", "?"}

IsGreetingCaseSensitive(question) ==
    LET t == Trim(question)
    IN  \E w \in GreetingWords :
            /\ OccursAt(t, w, 1)
            /\ \A i \in (Len(w) + 1)..Len(t) : GreetingTrail(t[i])

\* socketService.js:569-570  greetingPatterns.test(question.trim()):
\* ^(hi|hello|...)[\s!?]*$ under the i flag
IsGreeting(question) ==
    LET t == ToLowerCase(Trim(question))
    IN  \E w \in GreetingWords :
            /\ OccursAt(t, w, 1)
            /\ \A i \in (Len(w) + 1)..Len(t) : GreetingTrail(t[i])

\* socketService.js:495-506  the patterns of isApplicationQuery that match a
\* literal phrase anywhere in the question (lines 495-498 and 500-506, with
\* their alternatives multiplied out)
AppPhrases ==
    { <<"w", "h", "a", "t", " ", "i", "s">>,
      <<"w", "h", "a", "t", " ", "d", "o", "e", "s">>,
      <<"w", "h", "a", "t", " ", "c", "a", "n">>,
      <<"w", "h", "a", "t", " ", "f", "e", "a", "t", "u", "r", "e", "s">>,
      <<"w", "h", "a", "t", " ", "c", "a", "p", "a", "b", "i", "l", "i", "t", "i", "e", "s">>,
      <<"h", "o", "w", " ", "d", "o", " ", "i">>,
      <<"h", "o", "w", " ", "t", "o">>,
      <<"h", "o", "w", " ", "d", "o", "e", "s">>,
      <<"h", "o", "w", " ", "c", "a", "n", " ", "i">>,
      <<"s", "m", "a", "r", "t", "c", "o", "n", "t", "r", "a", "c", "t", ".", "a", "i">>,
      <<"s", "m", "a", "r", "t", " ", "c", "o", "n", "t", "r", "a", "c", "t", " ", "a", "i">>,
      <<"t", "e", "l", "l", " ", "m", "e", " ", "a", "b", "o", "u", "t", " ", "t", "h", "i", "s", " ", "a", "p", "p">>,
      <<"t", "e", "l", "l", " ", "m", "e", " ", "a", "b", "o", "u", "t", " ", "t", "h", "i", "s", " ", "a", "p", "p", "l", "i", "c", "a", "t", "i", "o", "n">>,
      <<"t", "e", "l", "l", " ", "m", "e", " ", "a", "b", "o", "u", "t", " ", "t", "h", "i", "s", " ", "p", "l", "a", "t", "f", "o", "r", "m">>,
      <<"t", "e", "l", "l", " ", "m", "e", " ", "a", "b", "o", "u", "t", " ", "t", "h", "i", "s", " ", "s", "y", "s", "t", "e", "m">>,
      <<"t", "e", "l", "l", " ", "m", "e", " ", "a", "b", "o", "u", "t", " ", "t", "h", "e", " ", "a", "p", "p">>,
      <<"t", "e", "l", "l", " ", "m", "e", " ", "a", "b", "o", "u", "t", " ", "t", "h", "e", " ", "a", "p", "p", "l", "i", "c", "a", "t", "i", "o", "n">>,
      <<"t", "e", "l", "l", " ", "m", "e", " ", "a", "b", "o", "u", "t", " ", "t", "h", "e", " ", "p", "l", "a", "t", "f", "o", "r", "m">>,
      <<"t", "e", "l", "l", " ", "m", "e", " ", "a", "b", "o", "u", "t", " ", "t", "h", "e", " ", "s", "y", "s", "t", "e", "m">>,
      <<"e", "x", "p", "l", "a", "i", "n", " ", "t", "h", "i", "s", " ", "a", "p", "p">>,
      <<"e", "x", "p", "l", "a", "i", "n", " ", "t", "h", "i", "s", " ", "a", "p", "p", "l", "i", "c", "a", "t", "i", "o", "n">>,
      <<"e", "x", "p", "l", "a", "i", "n", " ", "t", "h", "i", "s", " ", "p", "l", "a", "t", "f", "o", "r", "m">>,
      <<"e", "x", "p", "l", "a", "i", "n", " ", "t", "h", "i", "s", " ", "s", "y", "s", "t", "e", "m">>,
      <<"e", "x", "p", "l", "a", "i", "n", " ", "t", "h", "e", " ", "a", "p", "p">>,
      <<"e", "x", "p", "l", "a", "i", "n", " ", "t", "h", "e", " ", "a", "p", "p", "l", "i", "c", "a", "t", "i", "o", "n">>,
      <<"e", "x", "p", "l", "a", "i", "n", " ", "t", "h", "e", " ", "p", "l", "a", "t", "f", "o", "r", "m">>,
      <<"e", "x", "p", "l", "a", "i", "n", " ", "t", "h", "e", " ", "s", "y", "s", "t", "e", "m">>,
      <<"d", "e", "s", "c", "r", "i", "b", "e", " ", "t", "h", "i", "s", " ", "a", "p", "p">>,
      <<"d", "e", "s", "c", "r", "i", "b", "e", " ", "t", "h", "i", "s", " ", "a", "p", "p", "l", "i", "c", "a", "t", "i", "o", "n">>,
      <<"d", "e", "s", "c", "r", "i", "b", "e", " ", "t", "h", "i", "s", " ", "p", "l", "a", "t", "f", "o", "r", "m">>,
      <<"d", "e", "s", "c", "r", "i", "b", "e", " ", "t", "h", "i", "s", " ", "s", "y", "s", "t", "e", "m">>,
      <<"d", "e", "s", "c", "r", "i", "b", "e", " ", "t", "h", "e", " ", "a", "p", "p">>,
      <<"d", "e", "s", "c", "r", "i", "b", "e", " ", "t", "h", "e", " ", "a", "p", "p", "l", "i", "c", "a", "t", "i", "o", "n">>,
      <<"d", "e", "s", "c", "r", "i", "b", "e", " ", "t", "h", "e", " ", "p", "l", "a", "t", "f", "o", "r", "m">>,
      <<"d", "e", "s", "c", "r", "i", "b", "e", " ", "t", "h", "e", " ", "s", "y", "s", "t", "e", "m">>,
      <<"p", "r", "i", "v", "a", "c", "y">>,
      <<"s", "e", "c", "u", "r", "i", "t", "y">>,
      <<"d", "a", "t", "a">>,
      <<"p", "o", "l", "i", "c", "y">>,
      <<"p", "o", "l", "i", "c", "i", "e", "s">>,
      <<"s", "u", "p", "p", "o", "r", "t">>,
      <<"h", "e", "l", "p">>,
      <<"g", "u", "i", "d", "e">>,
      <<"t", "u", "t", "o", "r", "i", "a", "l">>,
      <<"s", "e", "t", "u", "p">>,
      <<"t", "e", "c", "h", "n", "i", "c", "a", "l">>,
      <<"s", "p", "e", "c", "s">>,
      <<"r", "e", "q", "u", "i", "r", "e", "m", "e", "n", "t", "s">>,
      <<"p", "e", "r", "f", "o", "r", "m", "a", "n", "c", "e">>,
      <<"p", "r", "i", "c", "i", "n", "g">>,
      <<"c", "o", "s", "t">>,
      <<"f", "r", "e", "e">>,
      <<"p", "a", "y", "m", "e", "n", "t">>,
      <<"f", "i", "l", "e", " ", "t", "y", "p", "e", "s">>,
      <<"f", "o", "r", "m", "a", "t", "s">>,
      <<"s", "u", "p", "p", "o", "r", "t", "e", "d">>,
      <<"o", "l", "l", "a", "m", "a">>,
      <<"a", "i", " ", "m", "o", "d", "e", "l">>,
      <<"l", "o", "c", "a", "l", " ", "p", "r", "o", "c", "e", "s", "s", "i", "n", "g">>,
      <<"r", "e", "g", "i", "s", "t", "r", "a", "t", "i", "o", "n">>,
      <<"l", "o", "g", "i", "n">>,
      <<"a", "c", "c", "o", "u", "n", "t">>,
      <<"u", "s", "e", "r">> }
\* socketService.js:499  (what|how|why|when|where).*(app|...|analysis)
AppQuestionWords ==
    { <<"w", "h", "a", "t">>,
      <<"h", "o", "w">>,
      <<"w", "h", "y">>,
      <<"w", "h", "e", "n">>,
      <<"w", "h", "e", "r", "e">> }
AppTopicWords ==
    { <<"a", "p", "p">>,
      <<"a", "p", "p", "l", "i", "c", "a", "t", "i", "o", "n">>,
      <<"p", "l", "a", "t", "f", "o", "r", "m">>,
      <<"s", "y", "s", "t", "e", "m">>,
      <<"f", "e", "a", "t", "u", "r", "e", "s">>,
      <<"u", "p", "l", "o", "a", "d">>,
      <<"d", "o", "c", "u", "m", "e", "n", "t">>,
      <<"c", "o", "n", "t", "r", "a", "c", "t">>,
      <<"a", "n", "a", "l", "y", "s", "i", "s">> }

\* socketService.js:499  a question word, then any characters but a line
\* break, then a topic word
QuestionWordThenTopic(s) ==
    \E a \in AppQuestionWords : \E i \in 1..(Len(s) - Len(a) + 1) :
        /\ OccursAt(s, a, i)
        /\ \E b \in AppTopicWords : \E j \in (i + Len(a))..(Len(s) - Len(b) + 1) :
                /\ OccursAt(s, b, j)
                /\ \A k \in (i + Len(a))..(j - 1) : s[k] # "\n"

\* The phrases of AppPhrases by their first character: a phrase occurs at a
\* position only if its first character stands there.
AppPhrasesFrom ==
    [c \in {p[1] : p \in AppPhrases} |-> {p \in AppPhrases : p[1] = c}]

\* socketService.js:495-498, 500-506  one of the literal patterns matches
IncludesAppPhrase(s) ==
    \E i \in 1..Len(s) :
        /\ s[i] \in DOMAIN AppPhrasesFrom
        /\ \E p \in AppPhrasesFrom[s[i]] : OccursAt(s, p, i)

\* socketService.js:493-510  isApplicationQuery: some pattern matches
isApplicationQuery(question) ==
    LET s == ToLowerCase(question)
    IN  \/ IncludesAppPhrase(s)
        \/ QuestionWordThenTopic(s)

\* --------------------------------------------------------- query state

Queries == 1..NumQueries

\* chat.js:15  the userId of a request without a valid token
DemoUser == 0
\* chat.js:69, 74  the keys of demoContracts
EMPLOYMENT_001 == -1
LEASE_002 == -2
DemoContracts == {EMPLOYMENT_001, LEASE_002}
\* No contractId in the request body; also a null context argument
NoContract == 0
\* chat.js:137  recentContent, the context argument of the second call
RECENT_CONTENT == -3

\* socketService.js:259  this.vectorStore = null, and a store made from docs
NoStore == [made |-> FALSE, docs |-> {}]
StoreOf(docs) == [made |-> TRUE, docs |-> docs]

NoResult == [kind |-> "none", hasContext |-> FALSE, queryType |-> "none"]

\* A request slot before its request arrives.
IdleRequest ==
    [ at |-> "idle", route |-> "none", user |-> DemoUser, contractId |-> NoContract,
      question |-> <<>>,      \* the query of the request body
      listed |-> {},          \* chat.js:116  userContracts
      loadDocs |-> {},        \* socketService.js:712  contracts of loadUserDocuments
      round |-> 0,            \* the calls of answerQuestion made so far
      asked |-> <<>>,         \* the question of the current call
      ctxFrom |-> NoContract, \* the contract whose content is the context argument
      source |-> "none",      \* where contextText of the current call came from
      snap |-> {},            \* the documents of the store a search runs on
      hits |-> {},            \* the documents of the passages the search returned
      searches |-> 0,         \* similarity searches of the current call
      gen |-> 0,              \* generation-model calls of the current call
      result |-> NoResult,    \* what the current call returned
      refStatus |-> "none",   \* the status of the contract when the route used it
      failure |-> "none",     \* the call of the request that failed, if one did
      outcome |-> "none" ]    \* the response of the route

\* --------------------------------------------------- admission and cleanup

\* contracts.js:222  the negation of `userProcessing >= MAX_CONCURRENT_PER_USER`
UserLimitOffByOne(userProcessing) == userProcessing <= MAX_CONCURRENT_PER_USER
UnderUserLimit(userProcessing) == userProcessing < MAX_CONCURRENT_PER_USER

\* contracts.js:229  the negation of `globalProcessingCount >= MAX_GLOBAL_CONCURRENT`
UnderGlobalLimit(count) == count < MAX_GLOBAL_CONCURRENT

\* contracts.js:221-237  the synchronous head of processContractAsync: either
\* the job is deferred (it awaits a timer and calls itself again) or both
\* counters are incremented and the job enters its try block at `admitted`.
Admission(d, admitted) ==
    LET userProcessing == processingQueue[owner[d]]
    IN  IF ~UnderUserLimit(userProcessing)
          THEN /\ pc' = [pc EXCEPT ![d] = "deferredUser"]
               /\ UNCHANGED <<processingQueue, globalProcessingCount>>
          ELSE IF ~UnderGlobalLimit(globalProcessingCount)
          THEN /\ pc' = [pc EXCEPT ![d] = "deferredGlobal"]
               /\ UNCHANGED <<processingQueue, globalProcessingCount>>
          ELSE /\ processingQueue' =
                      [processingQueue EXCEPT ![owner[d]] = userProcessing + 1]
               /\ globalProcessingCount' = globalProcessingCount + 1
               /\ pc' = [pc EXCEPT ![d] = admitted]

CleanupUserDeletesKey(queue, u) == [queue EXCEPT ![u] = 0]
CleanupUserKeepsKey(queue, u) == queue
CleanupUserDeletesAtTwo(queue, u) ==
    IF queue[u] <= 2 THEN [queue EXCEPT ![u] = 0]
                     ELSE [queue EXCEPT ![u] = queue[u] - 1]

\* contracts.js:314-319  `get(userId) || 1`, then delete the key or decrement
CleanupUser(queue, u) ==
    LET currentUserProcessing == IF queue[u] = 0 THEN 1 ELSE queue[u]
    IN  IF currentUserProcessing <= 1
          THEN [queue EXCEPT ![u] = 0]
          ELSE [queue EXCEPT ![u] = currentUserProcessing - 1]

\* contracts.js:320  Math.max(0, globalProcessingCount - 1)
CleanupGlobal(count) == IF count - 1 > 0 THEN count - 1 ELSE 0

\* ------------------------------------------------- the job, handler by handler

Deferred(d) == pc[d] \in {"deferredUser", "deferredGlobal"}

\* contracts.js:263-271, 294-301  update ... .eq('id', contractId): the row's
\* status is written, unless the row was deleted, when no row matches
WriteStatusOfEveryRow(st, d, v) ==
    [e \in DOMAIN st |-> IF st[e] \in {"none", "deleted"} THEN st[e] ELSE v]
WriteStatus(st, d, v) == IF st[d] = "deleted" THEN st ELSE [st EXCEPT ![d] = v]

\* contracts.js:18-26  allowedTypes of the fileFilter
allowedTypes ==
    { "application/pdf", "image/jpeg", "image/png", "image/tiff", "text/plain",
      "application/msword",
      "application/vnd.openxmlformats-officedocument.wordprocessingml.document" }

\* UploadModal.jsx:27-38  allowedTypes of onDrop, the check of the client
ClientAllowedTypes ==
    { "application/pdf",
      "application/vnd.openxmlformats-officedocument.wordprocessingml.document",
      "application/msword", "text/plain", "image/jpeg", "image/jpg",
      "image/png", "image/tiff", "image/bmp", "image/webp" }

\* contracts.js:15  limits.fileSize, with MAX_FILE_SIZE unset
MAX_FILE_SIZE == 10 * 1024 * 1024

\* contracts.js:17-33  fileFilter: cb(null, true) or cb(new Error(..), false)
fileFilter(mimetype) == mimetype \in allowedTypes

\* contracts.js:14-16  multer ends the request with an error when the file
\* has more bytes than limits.fileSize
WithinLimit(size) == size <= MAX_FILE_SIZE

\* UploadModal.jsx:17-46  onDrop sends the file on
ClientAccepts(file) ==
    ~(file.size > 10 * 1024 * 1024) /\ file.mimetype \in ClientAllowedTypes

\* contracts.js:12-34  the upload middleware hands the file to the route
MulterAccepts(file) == fileFilter(file.mimetype) /\ WithinLimit(file.size)

\* req.file: the declared media type and the number of bytes
File(m, n) == [mimetype |-> m, size |-> n]
NoFile == File("", 0)

\* contracts.js:39, 108  a request reaches an upload route: multer runs before
\* the handler. A file it refuses ends the request with an error, and the
\* handler, the insert of the record and processContractAsync never run.
Receive(d, file) ==
    /\ owner[d] # 0
    /\ pc[d] = "new"
    /\ d \notin DOMAIN files
    /\ files' = [e \in DOMAIN files \cup {d} |-> IF e = d THEN file ELSE files[e]]
    /\ pc' = IF MulterAccepts(file) THEN pc ELSE [pc EXCEPT ![d] = "rejected"]
    /\ UNCHANGED <<owner, status, processingQueue, globalProcessingCount, faults,
                   extracted, ana, emb, embRef, stores, userVectorStores,
                   notice, ocr, queryVars>>

\* contracts.js:39-94, 108-192  the upload routes: the record is inserted with
\* status processing, then processContractAsync is called for it.
Submit(d) ==
    /\ owner[d] # 0
    /\ pc[d] = "new"
    /\ status' = [status EXCEPT ![d] = "processing"]
    /\ \A e \in Docs : e < d => pc[e] # "new"   \* ids are issued in insertion order
    /\ Admission(d, "admitted")
    /\ UNCHANGED <<owner, faults, pipeVars, queryVars>>

\* contracts.js:71-77, 92; 145-152, 186-187  whether the route calls
\* processContractAsync for the file: `if (contractError)` answers 500
\* (upload) or goes on to the next file (upload-batch) before the call
CallsProcessWhateverTheInsert(contractError) == TRUE
CallsProcess(contractError) == ~contractError

\* contracts.js:57-77, 130-152  the insert of the record comes back with an
\* error: no row exists, and the route is done with the file.
InsertFails(d) ==
    /\ owner[d] # 0
    /\ pc[d] = "new"
    /\ faults < MaxFaults
    /\ faults' = faults + 1
    /\ IF CallsProcess(TRUE)
         THEN Admission(d, "admitted")
         ELSE /\ pc' = [pc EXCEPT ![d] = "noRecord"]
              /\ UNCHANGED <<processingQueue, globalProcessingCount>>
    /\ UNCHANGED <<owner, status, pipeVars, queryVars>>

\* contracts.js:225-226, 231-232  the timer of a deferred job fires and
\* processContractAsync runs again from its first line.
Retry(d) ==
    /\ Deferred(d)
    /\ Admission(d, "admitted")
    /\ UNCHANGED <<owner, status, faults, pipeVars, queryVars>>

\* contracts.js:239-323  the job as one step, for the specifications that do
\* not look inside it: the try block ran to its end (completed) or threw into
\* the catch block (failed); the finally block then frees the slot.
Exit(d, ok) ==
    /\ pc[d] = "admitted"
    /\ ok \/ faults < AdmFaults
    /\ faults' = IF ok THEN faults ELSE faults + 1
    /\ status' = WriteStatus(status, d, IF ok THEN "completed" ELSE "failed")
    /\ processingQueue' = CleanupUser(processingQueue, owner[d])
    /\ globalProcessingCount' = CleanupGlobal(globalProcessingCount)
    /\ pc' = [pc EXCEPT ![d] = "done"]
    /\ UNCHANGED <<owner, pipeVars, queryVars>>

\* ------------------------------------------ the job, await by await (Spec)

\* Positions between the increment of the counters and the finally block.
InTryCatch ==
    {"admitted", "processing", "updating", "notifying", "failing", "failNotifying"}

\* Extracted texts: leading whitespace, the text between, trailing whitespace.
Text(l, c, t) == [got |-> "text", lead |-> l, core |-> c, trail |-> t]
Texts == {Text(0, 0, 0), Text(3, 49, 3), Text(0, 50, 0)}
\* What a job holds before extractTextFromFile returns, and after it threw.
NoText == [got |-> "none", lead |-> 0, core |-> 0, trail |-> 0]
Threw == [got |-> "threw", lead |-> 0, core |-> 0, trail |-> 0]

Length(t) == t.lead + t.core + t.trail
\* String.prototype.trim: the whitespace at both ends is dropped
TrimLength(t) == t.core

\* contracts.js:248  the negation of `!extractedText || extractedText.trim().length < 50`
SufficientUntrimmed(t) == ~(Length(t) = 0 \/ Length(t) < MIN_CONTENT_LENGTH)
HasSufficientText(t) == ~(Length(t) = 0 \/ TrimLength(t) < MIN_CONTENT_LENGTH)

\* ---------------------------------------------- text of an image (SpecOcr)

\* socketService.js:336-342  the texts extractTextFromImage returns: runs of
\* whitespace collapsed and both ends trimmed.
OcrTexts == {Text(0, 0, 0), Text(0, 9, 0), Text(0, 10, 0), Text(0, 50, 0)}
\* What Tesseract.recognize gives a call of extractTextFromImage.
OcrOutcomes == OcrTexts \cup {Threw}
\* socketService.js:374-392  what ollama.generate gives enhancedOCR: it
\* throws, or it replies, with or without a CLEANED_TEXT section.
Reply(m, c) == [kind |-> "reply", marked |-> m, cleaned |-> c]
GenerateThrew == [kind |-> "threw", marked |-> FALSE, cleaned |-> NoText]
NotCalled == [kind |-> "none", marked |-> FALSE, cleaned |-> NoText]
Replies ==
    {GenerateThrew, Reply(FALSE, NoText), Reply(TRUE, Text(1, 0, 1)),
     Reply(TRUE, Text(1, 60, 1))}

\* What the job of an image holds of it: what the first OCR run, the
\* enhancement and the OCR run of the catch block gave.
ImageFile == [first |-> NoText, reply |-> NotCalled, second |-> NoText]

\* String.prototype.trim on a text
Trimmed(t) == Text(0, t.core, 0)
\* a value that `||` and `!` take as true: a string that is not empty
Truthy(t) == t.got = "text" /\ Length(t) > 0
\* socketService.js:355  the minimum below which the text is returned as it is
MIN_OCR_LENGTH == 10

\* socketService.js:350-410  enhancedOCR: the object it returns (enhancedText
\* NoText stands for null), or Threw. `first` is what the OCR run of line 353
\* gave, `reply` what ollama.generate gave, `second` what the OCR run of the
\* catch block (line 404) gave.
enhancedOCR(first, reply, second) ==
    LET caught == IF second = Threw
                    THEN Threw
                    ELSE [rawText |-> second, enhancedText |-> NoText,
                          summary |-> "Enhancement failed"]
    IN  IF first = Threw THEN caught
        ELSE IF ~Truthy(first) \/ TrimLength(first) < MIN_OCR_LENGTH
          THEN [rawText |-> first, enhancedText |-> first,
                summary |-> "No significant text found"]
        ELSE IF reply.kind = "threw" THEN caught
        ELSE [rawText |-> first,
              enhancedText |-> IF reply.marked THEN Trimmed(reply.cleaned)
                               ELSE first,
              summary |-> "of the reply"]

\* contracts.js:336  `ocrResult.enhancedText || ocrResult.rawText`
EnhancedTextOnly(enhancedText, rawText) == enhancedText
OrRawText(enhancedText, rawText) ==
    IF Truthy(enhancedText) THEN enhancedText ELSE rawText

\* contracts.js:333-336, 341-344  extractTextFromFile for an image
extractTextFromFile(first, reply, second) ==
    LET ocrResult == enhancedOCR(first, reply, second)
    IN  IF ocrResult = Threw THEN Threw
        ELSE OrRawText(ocrResult.enhancedText, ocrResult.rawText)

\* Whether enhancedOCR reached its call of ollama.generate, and its catch block
CallsGenerateOnAnyText(first) == first # Threw
CallsGenerate(first) ==
    first # Threw /\ Truthy(first) /\ TrimLength(first) >= MIN_OCR_LENGTH
ReachesCatch(first, reply) ==
    first = Threw \/ (CallsGenerate(first) /\ reply.kind = "threw")

\* contracts.js:243-258  extractTextFromFile returned t. Too short a text is
\* thrown into the catch block; otherwise analyzeDocumentFast and
\* processDocumentEmbeddings are both called, and addDocumentsWithIsolation
\* reads the user's store from the map (socketService.js:855) before its
\* first await.
ExtractReturn(d, t) ==
    /\ pc[d] = "admitted"
    /\ d \notin DOMAIN ocr
    /\ extracted' = [extracted EXCEPT ![d] = t]
    /\ IF HasSufficientText(t)
         THEN /\ pc' = [pc EXCEPT ![d] = "processing"]
              /\ ana' = [ana EXCEPT ![d] = "running"]
              /\ emb' = [emb EXCEPT ![d] = "running"]
              /\ embRef' = [embRef EXCEPT ![d] = userVectorStores[owner[d]]]
              /\ UNCHANGED faults
         ELSE /\ faults < MaxFaults
              /\ faults' = faults + 1
              /\ pc' = [pc EXCEPT ![d] = "failing"]
              /\ UNCHANGED <<ana, emb, embRef>>
    /\ UNCHANGED <<owner, status, processingQueue, globalProcessingCount,
                   stores, userVectorStores, notice, ocr, files,
                   queryVars>>

\* contracts.js:341-344  extractTextFromFile threw
ExtractThrows(d) ==
    /\ pc[d] = "admitted"
    /\ d \notin DOMAIN ocr
    /\ faults < MaxFaults
    /\ faults' = faults + 1
    /\ extracted' = [extracted EXCEPT ![d] = Threw]
    /\ pc' = [pc EXCEPT ![d] = "failing"]
    /\ UNCHANGED <<owner, status, processingQueue, globalProcessingCount,
                   ana, emb, embRef, stores, userVectorStores, notice, ocr, files,
                   queryVars>>

\* contracts.js:39-94  the document uploaded is an image
UploadImage(d) ==
    /\ owner[d] # 0
    /\ pc[d] = "new"
    /\ d \notin DOMAIN ocr
    /\ ocr' = [e \in DOMAIN ocr \cup {d} |-> IF e = d THEN ImageFile ELSE ocr[e]]
    /\ UNCHANGED <<jobVars, extracted, ana, emb, embRef, stores,
                   userVectorStores, notice, files, queryVars>>

\* contracts.js:243-258, 333-336  extractTextFromFile of an image returned or
\* threw. A throw of ollama.generate is caught inside enhancedOCR and is not
\* a throw into the job's catch block; the same image gives the OCR run of
\* the catch block the text of the first run, unless that run throws.
OcrReturn(d, first, reply, second) ==
    LET t == extractTextFromFile(first, reply, second)
        enters == ~(t # Threw /\ HasSufficientText(t))
    IN  /\ pc[d] = "admitted"
        /\ d \in DOMAIN ocr
        /\ CallsGenerate(first) <=> reply # NotCalled
        /\ ReachesCatch(first, reply) <=> second # NoText
        /\ ocr' = [ocr EXCEPT ![d] = [first |-> first, reply |-> reply,
                                      second |-> second]]
        /\ extracted' = [extracted EXCEPT ![d] = t]
        /\ enters => faults < MaxFaults
        /\ faults' = IF enters THEN faults + 1 ELSE faults
        /\ IF enters
             THEN /\ pc' = [pc EXCEPT ![d] = "failing"]
                  /\ UNCHANGED <<ana, emb, embRef>>
             ELSE /\ pc' = [pc EXCEPT ![d] = "processing"]
                  /\ ana' = [ana EXCEPT ![d] = "running"]
                  /\ emb' = [emb EXCEPT ![d] = "running"]
                  /\ embRef' = [embRef EXCEPT ![d] = userVectorStores[owner[d]]]
        /\ UNCHANGED <<owner, status, processingQueue, globalProcessingCount,
                       stores, userVectorStores, notice, files, queryVars>>

\* contracts.js:255-258  Promise.all is fulfilled when both calls are
BothSettled(a, e) == a \in {"ok", "failed"} /\ e \in {"ok", "failed"}
BothFulfilled(a, e) == a = "ok" /\ e = "ok"

\* contracts.js:255-258  where the job stands once a call of its Promise.all
\* has settled: the first rejection throws into the catch block at once, while
\* the other call runs on; a job that already left the await is not moved.
PromiseAll(at, a, e) ==
    IF at # "processing" THEN at
    ELSE IF BothFulfilled(a, e) THEN "updating"
    ELSE IF a = "failed" \/ e = "failed" THEN "failing"
    ELSE "processing"

\* socketService.js:810-846  analyzeDocumentFast returned (a reply that is not
\* JSON is replaced by the fallback analysis) or ollama.generate threw
AnalysisReturn(d, ok) ==
    /\ ana[d] = "running"
    /\ ok \/ faults < MaxFaults
    /\ faults' = IF ok THEN faults ELSE faults + 1
    /\ ana' = [ana EXCEPT ![d] = IF ok THEN "ok" ELSE "failed"]
    /\ pc' = [pc EXCEPT ![d] = PromiseAll(pc[d], ana'[d], emb[d])]
    /\ UNCHANGED <<owner, status, processingQueue, globalProcessingCount,
                   extracted, emb, embRef, stores, userVectorStores, notice,
                   ocr, files, queryVars>>

\* socketService.js:856-870  the store that holds the document's passages once
\* the embeddings are there: a new store put under the user's key when the
\* call had found none, else the store it had found, with the passages added.
StoresAfterEmbed(d) ==
    IF embRef[d] = 0
      THEN [stores EXCEPT ![d] = {d}]
      ELSE [stores EXCEPT ![embRef[d]] = @ \cup {d}]

UserStoresAfterEmbed(d) ==
    IF embRef[d] = 0
      THEN [userVectorStores EXCEPT ![owner[d]] = d]
      ELSE userVectorStores

\* socketService.js:856-870  the stores once the embedding of a passage threw:
\* fromDocuments and addDocuments embed every passage of the call before they
\* add the first vector, so that a throw leaves every store as it was (a
\* store that fromDocuments was building is dropped, never put in the map).
StoresAfterPartialInsert(d) ==
    IF embRef[d] = 0 THEN stores ELSE [stores EXCEPT ![embRef[d]] = @ \cup {d}]
StoresAfterThrow(d) == stores

\* socketService.js:850-877  addDocumentsWithIsolation returned, or the
\* embedding model threw before any vector was added
EmbedReturn(d, ok) ==
    /\ emb[d] = "running"
    /\ ok \/ faults < MaxFaults
    /\ faults' = IF ok THEN faults ELSE faults + 1
    /\ emb' = [emb EXCEPT ![d] = IF ok THEN "ok" ELSE "failed"]
    /\ stores' = IF ok THEN StoresAfterEmbed(d) ELSE StoresAfterThrow(d)
    /\ userVectorStores' = IF ok THEN UserStoresAfterEmbed(d) ELSE userVectorStores
    /\ pc' = [pc EXCEPT ![d] = PromiseAll(pc[d], ana[d], emb'[d])]
    /\ UNCHANGED <<owner, status, processingQueue, globalProcessingCount,
                   extracted, ana, embRef, notice, ocr, files,
                   queryVars>>

\* contracts.js:263-276  the update to status completed returned; an
\* updateError is thrown into the catch block
UpdateReturn(d, ok) ==
    /\ pc[d] = "updating"
    /\ ok \/ faults < MaxFaults
    /\ faults' = IF ok THEN faults ELSE faults + 1
    /\ status' = IF ok THEN WriteStatus(status, d, "completed") ELSE status
    /\ pc' = [pc EXCEPT ![d] = IF ok THEN "notifying" ELSE "failing"]
    /\ UNCHANGED <<owner, processingQueue, globalProcessingCount, pipeVars, queryVars>>

\* contracts.js:290-301  the catch block's update to status failed returned.
\* The store is taken to apply this write: the code does not look at its result.
FailUpdateReturn(d) ==
    /\ pc[d] = "failing"
    /\ status' = WriteStatus(status, d, "failed")
    /\ pc' = [pc EXCEPT ![d] = "failNotifying"]
    /\ UNCHANGED <<owner, processingQueue, globalProcessingCount, faults, pipeVars,
                   queryVars>>

InsertRejectsOnError(at, ok) == ~ok
InsertAlwaysRejects(at, ok) == TRUE
\* contracts.js:279-286, 304-311  whether `await supabase.from(..).insert(..)`
\* rejects: the client of config/supabase.js resolves to {data, error} also
\* when the insert failed, and the code does not read the error
InsertRejects(at, ok) == FALSE

\* contracts.js:279-286, 304-323  the insert of the notification returned,
\* stored or not. A rejection inside the try block would enter the catch
\* block; otherwise the finally block runs in the same step.
NotifyReturn(d, ok) ==
    /\ pc[d] \in {"notifying", "failNotifying"}
    /\ ok \/ faults < MaxFaults
    /\ faults' = IF ok THEN faults ELSE faults + 1
    /\ notice' = [notice EXCEPT ![d] = IF ok THEN "sent" ELSE "failed"]
    /\ IF pc[d] = "notifying" /\ InsertRejects(pc[d], ok)
         THEN /\ pc' = [pc EXCEPT ![d] = "failing"]
              /\ UNCHANGED <<processingQueue, globalProcessingCount>>
         ELSE /\ processingQueue' = CleanupUser(processingQueue, owner[d])
              /\ globalProcessingCount' = CleanupGlobal(globalProcessingCount)
              /\ pc' = [pc EXCEPT ![d] = "done"]
    /\ UNCHANGED <<owner, status, extracted, ana, emb, embRef, stores,
                   userVectorStores, ocr, files, queryVars>>

\* ------------------------------------------------ answering a question

\* socketService.js:580-584  the return value of the greeting branch
GreetingResult == [kind |-> "canned", hasContext |-> TRUE, queryType |-> "none"]

\* socketService.js:587-599  whether contextText ended up a non-empty string.
\* The caller's context is the content of a completed contract or
\* recentContent; the platform knowledge of an application query always holds
\* the App Information entry (558-560); the passages joined at 598.
ContextTextNonEmpty(r) ==
    CASE r.source = "caller" -> TRUE
      [] r.source = "platform" -> TRUE
      [] r.source = "index" -> r.hits # {}
      [] OTHER -> FALSE

\* socketService.js:649  hasContext: !!contextText
HasContext(r) == ContextTextNonEmpty(r)

\* socketService.js:650
QueryType(r) ==
    IF isApplicationQuery(r.asked) THEN "platform"
    ELSE IF ContextTextNonEmpty(r) THEN "document" ELSE "general"

\* chat.js:133-134  the titles are taken to be "nda"
Title(d) == <<"n", "d", "a">>
ContextualPromptPrefix ==
    <<"I", " ", "h", "a", "v", "e", " ", "u", "p", "l", "o", "a", "d", "e", "d", " ", "t", "h", "e", " ", "f", "o", "l", "l", "o", "w", "i", "n", "g", " ", "c", "o", "n", "t", "r", "a", "c", "t", "s", ":", " ">>
ContextualPrompt(n, queryMessage) ==
    LET RECURSIVE Join(_)
        Join(k) == IF k = 0 THEN <<>>
                   ELSE IF k = 1 THEN Title(k)
                   ELSE Join(k - 1) \o <<",", " ">> \o Title(k)
    IN  ContextualPromptPrefix \o Join(n) \o <<".", " ">> \o queryMessage

\* socketService.js:587-599  where contextText comes from: the caller's
\* context, else the platform knowledge for an application query, else a
\* similarity search when this.vectorStore is set, else nowhere
SearchBeforePlatform(context, isAppQuery, made) ==
    IF context # NoContract THEN "caller"
    ELSE IF made THEN "index"
    ELSE IF isAppQuery THEN "platform"
    ELSE "none"
ContextSource(context, isAppQuery, made) ==
    IF context # NoContract THEN "caller"
    ELSE IF isAppQuery THEN "platform"
    ELSE IF made THEN "index"
    ELSE "none"

RECURSIVE AnswerQuestion(_, _, _, _)
RECURSIVE Resume(_, _)

\* socketService.js:566-599  answerQuestion from its call to its first await
\* (or to its return, for a greeting), run by request record r against the
\* store that this.vectorStore holds at the call.
AnswerQuestion(r, question, context, store) ==
    LET call == [r EXCEPT !.round = @ + 1, !.asked = question,
                          !.ctxFrom = context, !.source = "none",
                          !.snap = {}, !.hits = {}, !.searches = 0,
                          !.gen = 0, !.result = NoResult]
        source == ContextSource(context, isApplicationQuery(question), store.made)
    IN  IF IsGreeting(question)
          THEN Resume([call EXCEPT !.result = GreetingResult], store)
        ELSE IF source = "index"
          THEN [call EXCEPT !.at = "search", !.source = "index",
                            !.searches = 1, !.snap = store.docs]
        ELSE [call EXCEPT !.at = "generate", !.source = source, !.gen = 1]

\* chat.js:110-151, part_007:40-49  the route from the point where
\* answerQuestion has returned r.result to its next await or its response.
Resume(r, store) ==
    IF r.route = "test"
      THEN [r EXCEPT !.at = "done", !.outcome = "ok"]
    ELSE IF r.contractId # NoContract
      THEN [r EXCEPT !.at = "save"]
    ELSE IF r.listed # {} /\ r.round = 1 /\ ~r.result.hasContext
      THEN AnswerQuestion(r, ContextualPrompt(Cardinality(r.listed), r.question),
                          RECENT_CONTENT, store)
    ELSE [r EXCEPT !.at = "done", !.outcome = "ok"]

\* chat.js:72, 77, 87  the status of the contract a contractId refers to
RefStatus(contractId) ==
    IF contractId \in DemoContracts THEN "completed"
    ELSE IF contractId \in Docs THEN status[contractId]
    ELSE "none"

\* chat.js:81  demoContracts[contractId] || demoContracts['employment-001']
DemoContract(contractId) ==
    IF contractId \in DemoContracts THEN contractId ELSE EMPLOYMENT_001

\* The rows a select of the user's completed contracts returns.
CompletedOf(u) == {d \in Docs : owner[d] = u /\ status[d] = "completed"}

QueryUnchanged == UNCHANGED <<jobVars, pipeVars>>

\* The request slots that no request has taken yet.
IdleSlots == {q \in Queries : qs[q].at = "idle"}

\* chat.js:47-90, 111-121  POST /query from the request to its first await
QueryStart(q, u, contractId, question) ==
    /\ qs[q].at = "idle"
    /\ \A p \in Queries : p < q => qs[p].at # "idle"
    /\ LET r == [qs[q] EXCEPT !.route = "query", !.user = u,
                              !.contractId = contractId, !.question = question]
       IN  qs' = [qs EXCEPT ![q] =
                IF question = <<>>
                  THEN [r EXCEPT !.at = "done", !.outcome = "badRequest"]
                ELSE IF contractId = NoContract
                  THEN [r EXCEPT !.at = "list"]
                ELSE IF u = DemoUser
                  THEN AnswerQuestion([r EXCEPT !.refStatus = RefStatus(contractId)],
                                      question, DemoContract(contractId),
                                      vectorStore)
                ELSE [r EXCEPT !.at = "fetch"]]
    /\ UNCHANGED <<vectorStore, chat_sessions>>
    /\ QueryUnchanged

\* part_007:34-40  POST /test-chat, which needs no token
TestChat(q, message) ==
    /\ qs[q].at = "idle"
    /\ \A p \in Queries : p < q => qs[p].at # "idle"
    /\ qs' = [qs EXCEPT ![q] =
                AnswerQuestion([qs[q] EXCEPT !.route = "test",
                                             !.question = message],
                               message, NoContract, vectorStore)]
    /\ UNCHANGED <<vectorStore, chat_sessions>>
    /\ QueryUnchanged

\* chat.js:85-110  the select of the contract returns
FetchReturn(q) ==
    LET r == qs[q]
        c == r.contractId
        found == c \in Docs /\ owner[c] = r.user /\ status[c] \notin {"none", "deleted"}
        seen == [r EXCEPT !.refStatus = RefStatus(c)]
    IN  /\ r.at = "fetch"
        /\ qs' = [qs EXCEPT ![q] =
                    IF ~found
                      THEN [seen EXCEPT !.at = "done", !.outcome = "notFound"]
                    ELSE IF status[c] # "completed"
                      THEN [seen EXCEPT !.at = "done", !.outcome = "notReady"]
                    ELSE AnswerQuestion(seen, r.question, c, vectorStore)]
        /\ UNCHANGED <<vectorStore, chat_sessions>>
        /\ QueryUnchanged

\* chat.js:116-126, 143-146  the select of the user's completed contracts
\* returns; loadUserDocuments is called and runs to its own select
ListReturn(q) ==
    LET r == qs[q]
        userContracts == CompletedOf(r.user)
    IN  /\ r.at = "list"
        /\ qs' = [qs EXCEPT ![q] =
                    IF userContracts # {}
                      THEN [r EXCEPT !.at = "loadSelect", !.listed = userContracts]
                      ELSE AnswerQuestion(r, r.question, NoContract, vectorStore)]
        /\ UNCHANGED <<vectorStore, chat_sessions>>
        /\ QueryUnchanged

\* socketService.js:712-742  the select of loadUserDocuments returns: an error
\* or no rows make it return false, which chat.js:126 ignores, and the route
\* goes on to answerQuestion (chat.js:129); otherwise it starts createVectorStore
LoadSelectReturn(q, ok) ==
    LET r == qs[q]
        contracts == CompletedOf(r.user)
    IN  /\ r.at = "loadSelect"
        /\ ok \/ faults < QueryFaults
        /\ faults' = IF ok THEN faults ELSE faults + 1
        /\ qs' = [qs EXCEPT ![q] =
                    IF ok /\ contracts # {}
                      THEN [r EXCEPT !.at = "loadEmbed", !.loadDocs = contracts]
                    ELSE IF ok
                      THEN AnswerQuestion(r, r.question, NoContract, vectorStore)
                    ELSE AnswerQuestion([r EXCEPT !.failure = "select"],
                                        r.question, NoContract, vectorStore)]
        /\ UNCHANGED <<vectorStore, chat_sessions>>
        /\ UNCHANGED <<owner, status, pc, processingQueue, globalProcessingCount,
                       pipeVars>>

\* socketService.js:438-448, 742-749  createVectorStore returns: it assigned
\* this.vectorStore a store of the contracts selected, or it threw and
\* loadUserDocuments swallowed that; then chat.js:129 calls answerQuestion
LoadEmbedReturn(q, ok) ==
    LET r == qs[q]
        store == IF ok THEN StoreOf(r.loadDocs) ELSE vectorStore
    IN  /\ r.at = "loadEmbed"
        /\ ok \/ faults < QueryFaults
        /\ faults' = IF ok THEN faults ELSE faults + 1
        /\ vectorStore' = store
        /\ qs' = [qs EXCEPT ![q] =
                    AnswerQuestion([r EXCEPT !.failure =
                                        IF ok THEN @ ELSE "embedding"],
                                   r.question, NoContract, store)]
        /\ UNCHANGED chat_sessions
        /\ UNCHANGED <<owner, status, pc, processingQueue, globalProcessingCount,
                       pipeVars>>

\* socketService.js:597  similaritySearch(question, 3)
SEARCH_K == 3

\* socketService.js:480-485, 597-631  the search returns up to SEARCH_K
\* passages of the store it was started on, and generate is called
SearchReturn(q, hits) ==
    LET r == qs[q]
    IN  /\ r.at = "search"
        /\ hits \subseteq r.snap
        /\ hits # {}
        /\ Cardinality(hits) <= SEARCH_K
        /\ qs' = [qs EXCEPT ![q] = [r EXCEPT !.at = "generate", !.hits = hits,
                                            !.snap = {}, !.gen = @ + 1]]
        /\ UNCHANGED <<vectorStore, chat_sessions>>
        /\ QueryUnchanged

\* socketService.js:486-489, 652-655; chat.js:217-222  the search or the
\* generation throws, answerQuestion rethrows, the route answers 500
AnswerThrows(q) ==
    LET r == qs[q]
    IN  /\ r.at \in {"search", "generate"}
        /\ faults < QueryFaults
        /\ faults' = faults + 1
        /\ qs' = [qs EXCEPT ![q] =
                    [r EXCEPT !.at = "done", !.snap = {}, !.outcome = "error",
                              !.failure = IF r.at = "search" THEN "search"
                                          ELSE "generation"]]
        /\ UNCHANGED <<vectorStore, chat_sessions>>
        /\ UNCHANGED <<owner, status, pc, processingQueue, globalProcessingCount,
                       pipeVars>>

\* socketService.js:631-651  generate returns and answerQuestion returns its
\* result to the route
GenerateReturn(q) ==
    LET r == qs[q]
        result == [kind |-> "generated", hasContext |-> HasContext(r),
                   queryType |-> QueryType(r)]
    IN  /\ r.at = "generate"
        /\ qs' = [qs EXCEPT ![q] = Resume([r EXCEPT !.result = result],
                                          vectorStore)]
        /\ UNCHANGED <<vectorStore, chat_sessions>>
        /\ QueryUnchanged

\* chat.js:151-215  the chat session of (contractId, userId) is looked up,
\* created if missing, and gets the two messages; an error on the way is
\* logged only. Then the response is sent.
SaveReturn(q, ok) ==
    LET r == qs[q]
    IN  /\ r.at = "save"
        /\ chat_sessions' = IF ok THEN chat_sessions \cup {<<r.contractId, r.user>>}
                                  ELSE chat_sessions
        /\ qs' = [qs EXCEPT ![q] = [r EXCEPT !.at = "done", !.outcome = "ok"]]
        /\ UNCHANGED vectorStore
        /\ QueryUnchanged

\* contracts.js:460-518  DELETE /:id by the owner of the row: the row is
\* selected and deleted. ollamaService.clearDocumentStore (line 492) is not a
\* method of OllamaService: the call throws a TypeError, which line 493
\* catches, and no vector store is touched. A job of the document goes on.
DeleteReturn(d) ==
    /\ owner[d] # 0
    /\ status[d] \notin {"none", "deleted"}
    /\ status' = [status EXCEPT ![d] = "deleted"]
    /\ UNCHANGED <<owner, pc, processingQueue, globalProcessingCount, faults,
                   pipeVars, queryVars>>

\* contracts.js:523-578  POST /:id/reprocess by the owner of a failed
\* contract: the row's status is set to processing and the response is sent.
\* processContractAsync is not called (lines 568-569 say so).
ReprocessReturn(d) ==
    /\ owner[d] # 0
    /\ status[d] = "failed"
    /\ status' = [status EXCEPT ![d] = "processing"]
    /\ UNCHANGED <<owner, pc, processingQueue, globalProcessingCount, faults,
                   pipeVars, queryVars>>

InitJobs(who) ==
    /\ owner = [d \in Docs |-> who[d]]
    /\ status = [d \in Docs |-> "none"]
    /\ pc = [d \in Docs |-> "new"]
    /\ processingQueue = [u \in Users |-> 0]
    /\ globalProcessingCount = 0
    /\ faults = 0

InitPipe ==
    /\ extracted = [d \in Docs |-> NoText]
    /\ ana = [d \in Docs |-> "idle"]
    /\ emb = [d \in Docs |-> "idle"]
    /\ embRef = [d \in Docs |-> 0]
    /\ stores = [d \in Docs |-> {}]
    /\ userVectorStores = [u \in Users |-> 0]
    /\ notice = [d \in Docs |-> "none"]
    /\ ocr = [d \in {} |-> ImageFile]
    /\ files = [d \in {} |-> NoFile]

InitQuery ==
    /\ vectorStore = NoStore
    /\ chat_sessions = {}
    /\ qs = [q \in Queries |-> IdleRequest]

\* One user uploads NumDocs documents.
Init ==
    /\ InitJobs([d \in Docs |-> IF d <= NumDocs THEN 1 ELSE 0])
    /\ InitPipe
    /\ InitQuery

Next ==
    \/ \E d \in Docs : Submit(d)
    \/ \E d \in Docs : Retry(d)
    \/ \E d \in Docs, t \in Texts : ExtractReturn(d, t)
    \/ \E d \in Docs : ExtractThrows(d)
    \/ \E d \in Docs, ok \in BOOLEAN : AnalysisReturn(d, ok)
    \/ \E d \in Docs, ok \in BOOLEAN : EmbedReturn(d, ok)
    \/ \E d \in Docs, ok \in BOOLEAN : UpdateReturn(d, ok)
    \/ \E d \in Docs : FailUpdateReturn(d)
    \/ \E d \in Docs, ok \in BOOLEAN : NotifyReturn(d, ok)

Spec == Init /\ [][Next]_vars

\* ------------------------------------------- SpecAdm: admission under load

\* Round robin over the users; the last document is one more of user 1, so
\* that one user has more documents than MAX_CONCURRENT_PER_USER.
AdmOwner(d) == IF d = AdmDocs THEN 1 ELSE ((d - 1) % AdmUsers) + 1

InitAdm ==
    /\ InitJobs([d \in Docs |-> AdmOwner(d)])
    /\ InitPipe
    /\ InitQuery

NextAdm ==
    \/ \E d \in Docs : Submit(d)
    \/ \E d \in Docs : Retry(d)
    \/ \E d \in Docs : Exit(d, TRUE)
    \/ \E d \in Docs : Exit(d, FALSE)

SpecAdm == InitAdm /\ [][NextAdm]_vars

\* ------------------------------------ SpecQuery: questions beside uploads

WhatIsTheRent ==
    <<"w", "h", "a", "t", " ", "i", "s", " ", "t", "h", "e", " ", "r", "e", "n", "t">>

\* "hi", "rent due" (no pattern of isApplicationQuery matches it) and
\* "what is the rent" (its first pattern does)
QuerySamples ==
    { <<"h", "i">>,
      <<"r", "e", "n", "t", " ", "d", "u", "e">>,
      WhatIsTheRent }

QueryUsers == {DemoUser, 1, 2}
QueryDocs == {1, 2}
ContractIds == {NoContract, 1, LEASE_002}

\* Document 1 is user 1's and document 2 is user 2's.
InitSpecQuery ==
    /\ InitJobs([d \in Docs |-> IF d \in QueryDocs THEN d ELSE 0])
    /\ InitPipe
    /\ InitQuery

NextRequest ==
    \/ \E q \in Queries : FetchReturn(q)
    \/ \E q \in Queries : ListReturn(q)
    \/ \E q \in Queries, ok \in BOOLEAN : LoadSelectReturn(q, ok)
    \/ \E q \in Queries, ok \in BOOLEAN : LoadEmbedReturn(q, ok)
    \/ \E q \in Queries : \E hits \in SUBSET qs[q].snap : SearchReturn(q, hits)
    \/ \E q \in Queries : AnswerThrows(q)
    \/ \E q \in Queries : GenerateReturn(q)
    \/ \E q \in Queries, ok \in BOOLEAN : SaveReturn(q, ok)

NextQuery ==
    \/ \E d \in Docs : Submit(d)
    \/ \E d \in Docs : Exit(d, TRUE)
    \/ \E q \in IdleSlots, u \in QueryUsers, c \in ContractIds,
          question \in QuerySamples :
            QueryStart(q, u, c, question)
    \/ \E q \in IdleSlots, message \in QuerySamples : TestChat(q, message)
    \/ NextRequest

SpecQuery == InitSpecQuery /\ [][NextQuery]_vars

\* ------------------------------- SpecDelete: one request beside deletions

NextDelete ==
    \/ \E d \in Docs : Submit(d)
    \/ \E d \in Docs : Exit(d, TRUE)
    \/ \E d \in Docs : DeleteReturn(d)
    \/ \E q \in IdleSlots \cap {1}, u \in QueryUsers, c \in ContractIds,
          question \in QuerySamples :
            QueryStart(q, u, c, question)
    \/ \E q \in IdleSlots \cap {1}, message \in QuerySamples : TestChat(q, message)
    \/ NextRequest

SpecDelete == InitSpecQuery /\ [][NextDelete]_vars

\* --------------------------------------- SpecAnswer: one request, any question

QuestionChars == {"h", "i", "H", "!", "?", ".", " ", "\n"}

\* Every question of up to MaxQuestionLen of these characters, the empty one
\* included, and the samples of SpecQuery.
Questions ==
    UNION {[1..n -> QuestionChars] : n \in 0..MaxQuestionLen} \cup QuerySamples

NextAnswer ==
    \/ \E d \in Docs : Submit(d)
    \/ \E d \in Docs : Exit(d, TRUE)
    \/ \E q \in IdleSlots \cap {1}, u \in QueryUsers, c \in ContractIds,
          question \in Questions :
            QueryStart(q, u, c, question)
    \/ \E q \in IdleSlots \cap {1}, message \in Questions : TestChat(q, message)
    \/ NextRequest

SpecAnswer == InitSpecQuery /\ [][NextAnswer]_vars

\* Jobs that were admitted and have not yet run their cleanup.
ActiveJobs == {d \in Docs : pc[d] \in InTryCatch}
ActiveJobsOf(u) == {d \in ActiveJobs : owner[d] = u}

\* C1: at every instant the admitted jobs that have not run their cleanup
\* number at most MAX_CONCURRENT_PER_USER for each user and at most
\* MAX_GLOBAL_CONCURRENT overall.
C1_AdmissionRespectsCaps ==
    /\ \A u \in Users : Cardinality(ActiveJobsOf(u)) <= MAX_CONCURRENT_PER_USER
    /\ Cardinality(ActiveJobs) <= MAX_GLOBAL_CONCURRENT

\* Both caps are reached and each has deferred a job.
C1_Witness ==
    /\ Cardinality(ActiveJobs) = MAX_GLOBAL_CONCURRENT
    /\ \E d \in Docs : pc[d] = "deferredGlobal"
    /\ \E d \in Docs : pc[d] = "deferredUser"
    /\ \E u \in Users : Cardinality(ActiveJobsOf(u)) = MAX_CONCURRENT_PER_USER

\* ------------------------------------------------ claims about the pipeline

Exits(d) == pc[d] \in InTryCatch /\ pc'[d] = "done"

\* C5: every admitted job decrements the per-user and the global counter by
\* exactly one when it exits, after success or failure alike, nothing else
\* decrements them, and once every admitted job has exited both are zero.
C5_SlotFreedExactlyOnce ==
    /\ [](ActiveJobs = {} =>
            /\ globalProcessingCount = 0
            /\ \A u \in Users : processingQueue[u] = 0)
    /\ [][\A d \in Docs : Exits(d) =>
            /\ globalProcessingCount' = globalProcessingCount - 1
            /\ processingQueue'[owner[d]] = processingQueue[owner[d]] - 1]_vars
    /\ [][globalProcessingCount' < globalProcessingCount =>
            \E d \in Docs : Exits(d)]_vars

\* Every job has exited, one of them after a failure and one after success.
C5_Witness ==
    /\ \A d \in Docs : owner[d] # 0 => pc[d] = "done"
    /\ \E d \in Docs : status[d] = "failed"
    /\ \E d \in Docs : status[d] = "completed"
    /\ globalProcessingCount = 0

\* C6: a document is completed only if its extraction, its analysis and its
\* embedding all succeeded, and a job that has exited after any of them threw
\* has left the document failed.
C6_CompletedIffAllStagesSucceeded ==
    \A d \in Docs :
        /\ status[d] = "completed" =>
               /\ extracted[d].got = "text"
               /\ ana[d] = "ok"
               /\ emb[d] = "ok"
        /\ (pc[d] = "done" /\ ( \/ extracted[d] = Threw
                                \/ ana[d] = "failed"
                                \/ emb[d] = "failed" )) => status[d] = "failed"

\* One document is completed and another has failed in its analysis.
C6_Witness ==
    /\ \E d \in Docs : status[d] = "completed"
    /\ \E d \in Docs : pc[d] = "done" /\ ana[d] = "failed" /\ status[d] = "failed"

\* C7: a document whose extracted text is shorter than 50 characters once
\* trimmed is never completed, no analysis or embedding is started for it, and
\* its job leaves it failed.
C7_ShortContentFails ==
    \A d \in Docs :
        (extracted[d].got = "text" /\ TrimLength(extracted[d]) < MIN_CONTENT_LENGTH) =>
            /\ status[d] # "completed"
            /\ ana[d] = "idle"
            /\ emb[d] = "idle"
            /\ pc[d] = "done" => status[d] = "failed"

\* A text of 55 characters, 49 once trimmed, has failed its document.
C7_Witness ==
    \E d \in Docs :
        /\ extracted[d].got = "text"
        /\ Length(extracted[d]) >= MIN_CONTENT_LENGTH
        /\ TrimLength(extracted[d]) < MIN_CONTENT_LENGTH
        /\ pc[d] = "done"
        /\ status[d] = "failed"

\* The passages in the index of user u.
UserIndex(u) == IF userVectorStores[u] = 0 THEN {} ELSE stores[userVectorStores[u]]

\* C3: once the addDocumentsWithIsolation calls of a user's jobs have all
\* returned successfully, the user's index holds the passages of every one of
\* those documents.
C3_NoPassagesLost ==
    \A u \in Users :
        (\A d \in Docs : owner[d] = u => emb[d] \in {"idle", "ok"}) =>
            \A d \in Docs : (owner[d] = u /\ emb[d] = "ok") => d \in UserIndex(u)

\* ------------------------------------- SpecLive: the jobs under fair scheduling

InitLive ==
    /\ InitJobs([d \in Docs |-> IF d <= LiveDocs THEN 1 ELSE 0])
    /\ InitPipe
    /\ InitQuery

\* Every timer of a deferred job fires and every call of an admitted job
\* returns; nothing obliges a user to upload.
FairLive ==
    \A d \in Docs :
        /\ WF_vars(Retry(d))
        /\ WF_vars(Exit(d, TRUE) \/ Exit(d, FALSE))

SpecLive == InitLive /\ [][NextAdm]_vars /\ FairLive

\* C4: every document for which processContractAsync was called, a deferred
\* one included, eventually is completed or failed.
C4_EveryJobTerminates ==
    \A d \in Docs : (pc[d] # "new") ~> (status[d] \in {"completed", "failed"})

\* One user has called it for more documents than MAX_CONCURRENT_PER_USER, so
\* that some were deferred, and every one of them is completed or failed.
C4_Witness ==
    /\ Cardinality({d \in Docs : owner[d] = 1}) > MAX_CONCURRENT_PER_USER
    /\ \A d \in Docs : owner[d] = 1 => status[d] \in {"completed", "failed"}
    /\ \E d \in Docs : status[d] = "failed"

\* ------------------------------------------------------------- questions

\* The requests whose call of answerQuestion has returned a result.
Returned == {q \in Queries : qs[q].result.kind # "none"}

\* C2: a similarity search made while answering a question of a signed-in
\* user returns only passages whose metadata.userId is that user.
C2_SearchReturnsOwnPassagesOnly ==
    \A q \in Queries :
        (qs[q].route = "query" /\ qs[q].user # DemoUser)
            => \A d \in qs[q].hits : owner[d] = qs[q].user

\* C8: a query that carries a contractId calls the generation model or gets
\* an answer only if the contract referred to is completed.
C8_AnswersOnlyCompletedDocuments ==
    \A q \in Queries :
        (/\ qs[q].contractId # NoContract
         /\ qs[q].gen > 0 \/ qs[q].result.kind # "none" \/ qs[q].outcome = "ok")
            => qs[q].refStatus = "completed"

C9_Whitespace == {" ", "\n"}
C9_AnyPunctuation == {"!", "?", ".", ","}
C9_BangOrQuestionMark == {"!", "?"}

\* A greeting word in any case, then only characters of trail.
C9_GreetingThen(question, trail) ==
    \E w \in GreetingWords :
        /\ Len(question) >= Len(w)
        /\ \A i \in 1..Len(w) : LowerChar(question[i]) = w[i]
        /\ \A i \in (Len(w) + 1)..Len(question) : question[i] \in trail

C9_ShortCircuited(r) ==
    r.gen = 0 /\ r.searches = 0 /\ r.result.kind = "canned"

\* C9 as stated: a call of answerQuestion with a greeting in any case, followed
\* by any punctuation or whitespace, makes no generation call and no search
\* and returns a canned answer.
C9_GreetingWithAnyPunctuation ==
    \A q \in Queries :
        (qs[q].round > 0
         /\ C9_GreetingThen(qs[q].asked, C9_AnyPunctuation \cup C9_Whitespace))
            => C9_ShortCircuited(qs[q])

\* C9 as the code has it: a call of answerQuestion with a greeting in any
\* case, followed only by whitespace, "!" and "?", makes no generation call
\* and no search and returns a canned answer.
C9_GreetingShortCircuits ==
    \A q \in Queries :
        (qs[q].round > 0
         /\ C9_GreetingThen(qs[q].asked, C9_BangOrQuestionMark \cup C9_Whitespace))
            => C9_ShortCircuited(qs[q])

\* "Hi!" was asked and answered from the canned set.
C9_Witness ==
    \E q \in Queries :
        /\ qs[q].asked = <<"H", "i", "!">>
        /\ qs[q].at = "done"
        /\ C9_ShortCircuited(qs[q])

\* C10: every result answerQuestion returns has hasContext true if and only
\* if a non-empty context string was assembled from the caller's context, the
\* platform knowledge or the retrieved passages.
C10_HasContextIffContextAssembled ==
    \A q \in Returned :
        qs[q].result.hasContext <=> ContextTextNonEmpty(qs[q])

\* The queryType that names the branch that gave r its context.
C11_BranchOf(r) ==
    CASE r.source = "platform" -> "platform"
      [] r.source \in {"caller", "index"} -> "document"
      [] OTHER -> "general"

\* C11: every result answerQuestion returns after its context branches
\* carries the queryType of the branch that fired: platform for platform
\* knowledge, document for the caller's context or retrieved passages,
\* general for no context.
C11_QueryTypeRecordsBranch ==
    \A q \in Returned :
        qs[q].result.kind = "generated"
            => qs[q].result.queryType = C11_BranchOf(qs[q])

\* C12: when a signed-in user with completed documents asks "what is the
\* rent" without a contractId, the context of the answer is passages that a
\* similarity search retrieved from that user's own documents.
C12_ContextFromOwnPassages ==
    \A q \in Returned :
        (/\ qs[q].route = "query"
         /\ qs[q].user # DemoUser
         /\ qs[q].contractId = NoContract
         /\ qs[q].listed # {}
         /\ qs[q].question = WhatIsTheRent
         /\ qs[q].result.kind = "generated")
            => /\ qs[q].source = "index"
               /\ qs[q].hits # {}
               /\ \A d \in qs[q].hits : owner[d] = qs[q].user

\* C13: once a document is deleted, neither the store answerQuestion
\* searches nor any user's index holds a passage of it.
C13_DeletedLeavesNoPassages ==
    \A d \in Docs :
        status[d] = "deleted" =>
            /\ d \notin vectorStore.docs
            /\ \A u \in Users : d \notin UserIndex(u)

\* --------------------------- SpecReprocess: the jobs, fair, with reprocessing

NextReprocess ==
    \/ NextAdm
    \/ \E d \in Docs : ReprocessReturn(d)

SpecReprocess == InitLive /\ [][NextReprocess]_vars /\ FairLive

\* C14: a document whose status is processing, after an upload or after a
\* reprocess of a failed document, eventually is completed or failed.
C14_ReprocessedTerminates ==
    \A d \in Docs :
        (status[d] = "processing") ~> (status[d] \in {"completed", "failed"})

Terminal == {"completed", "failed"}

\* C15: a job writes a terminal status once: a status that is completed or
\* failed does not change again (no reprocess and no delete is requested
\* here), and a job that has ended has left one.
C15_TerminalStatusIsStable ==
    /\ [][\A d \in Docs : status[d] \in Terminal => status'[d] = status[d]]_vars
    /\ [](\A d \in Docs : pc[d] = "done" => status[d] \in Terminal)

\* One job has ended after its update to completed, another after that
\* update returned an error and the catch block wrote failed.
C15_Witness ==
    /\ \E d \in Docs : pc[d] = "done" /\ status[d] = "completed"
    /\ \E d \in Docs : /\ pc[d] = "done"
                       /\ ana[d] = "ok"
                       /\ emb[d] = "ok"
                       /\ status[d] = "failed"

C17_Throws(d) ==
    \/ pc[d] # "failing" /\ pc'[d] = "failing"
    \/ ana[d] # "failed" /\ ana'[d] = "failed"
    \/ emb[d] # "failed" /\ emb'[d] = "failed"

\* What the model holds of document e and of its job.
C17_Of(e) == <<status[e], pc[e], extracted[e], ana[e], emb[e], notice[e]>>

\* C17: a step in which a call of one document's job throws changes nothing
\* of any other document; a job enters its catch block only by a throw of
\* its own, failed is written only by the catch block of the document's own
\* job, and a job whose stage threw leaves its document failed.
C17_ErrorsStayWithTheirDocument ==
    /\ [][\A d \in Docs : C17_Throws(d) =>
            \A e \in Docs \ {d} : C17_Of(e)' = C17_Of(e)]_vars
    /\ [][\A e \in Docs : (status[e] # "failed" /\ status'[e] = "failed")
            => pc[e] = "failing"]_vars
    /\ [](\A d \in Docs :
            (pc[d] = "done" /\ (extracted[d] = Threw \/ ana[d] = "failed"
                                \/ emb[d] = "failed"))
                => status[d] = "failed")

\* The analysis of one document threw and the document is failed, while
\* another document, in flight beside it, is completed.
C17_Witness ==
    \E d \in Docs, e \in Docs :
        /\ ana[d] = "failed"
        /\ status[d] = "failed"
        /\ pc[e] = "notifying"
        /\ status[e] = "completed"

\* ------------------------- SpecBackend: a model backend that may not answer

\* Documents uploaded by the one user of SpecBackend.
BackendDocs == 2

InitBackend ==
    /\ InitJobs([d \in Docs |-> IF d <= BackendDocs THEN 1 ELSE 0])
    /\ InitPipe
    /\ InitQuery

NextBackend ==
    \/ \E d \in Docs : Submit(d)
    \/ \E d \in Docs, t \in Texts : ExtractReturn(d, t)
    \/ \E d \in Docs : ExtractThrows(d)
    \/ \E d \in Docs, ok \in BOOLEAN : AnalysisReturn(d, ok)
    \/ \E d \in Docs, ok \in BOOLEAN : EmbedReturn(d, ok)
    \/ \E d \in Docs, ok \in BOOLEAN : UpdateReturn(d, ok)
    \/ \E d \in Docs : FailUpdateReturn(d)
    \/ \E d \in Docs, ok \in BOOLEAN : NotifyReturn(d, ok)

\* socketService.js:810-819, 856-870; contracts.js:243-258  the calls that
\* wait for the model backend (ollama.generate of warmupModels and of
\* analyzeDocumentFast, the embedding requests) are awaited with no timer
\* beside them: they return when the backend answers, and nothing in the job
\* ends them otherwise. Only the steps that do not wait for the backend are
\* sure to be taken.
FairBackend ==
    \A d \in Docs :
        /\ WF_vars(\E ok \in BOOLEAN : UpdateReturn(d, ok))
        /\ WF_vars(FailUpdateReturn(d))
        /\ WF_vars(\E ok \in BOOLEAN : NotifyReturn(d, ok))

SpecBackend == InitBackend /\ [][NextBackend]_vars /\ FairBackend

\* C18: a job whose analysis call is waiting for the model backend eventually
\* leaves its finally block, its slots released, whether or not the backend
\* answers.
C18_InferenceCallsAreBounded ==
    \A d \in Docs : (ana[d] = "running") ~> (pc[d] = "done")

OcrDocs == 1

InitOcr ==
    /\ InitJobs([d \in Docs |-> IF d <= OcrDocs THEN 1 ELSE 0])
    /\ InitPipe
    /\ InitQuery

NextOcr ==
    \/ \E d \in Docs : UploadImage(d)
    \/ \E d \in Docs : Submit(d)
    \/ \E d \in Docs, first \in OcrOutcomes, reply \in Replies \cup {NotCalled} :
          \E second \in {first, Threw, NoText} : OcrReturn(d, first, reply, second)
    \/ \E d \in Docs, t \in Texts : ExtractReturn(d, t)
    \/ \E d \in Docs, ok \in BOOLEAN : AnalysisReturn(d, ok)
    \/ \E d \in Docs, ok \in BOOLEAN : EmbedReturn(d, ok)
    \/ \E d \in Docs, ok \in BOOLEAN : UpdateReturn(d, ok)
    \/ \E d \in Docs : FailUpdateReturn(d)
    \/ \E d \in Docs, ok \in BOOLEAN : NotifyReturn(d, ok)

SpecOcr == InitOcr /\ [][NextOcr]_vars

\* The OCR runs of document d's image succeeded and the enhancement call threw.
C20_EnhancementAloneFailed(d) ==
    /\ d \in DOMAIN ocr
    /\ ocr[d].first \in OcrTexts
    /\ ocr[d].reply = GenerateThrew
    /\ ocr[d].second = ocr[d].first

UploadDocs == 2

MediaTypes == ClientAllowedTypes \cup allowedTypes \cup {"image/gif"}
FileSizes == {1, MAX_FILE_SIZE, MAX_FILE_SIZE + 1}

InitUpload ==
    /\ InitJobs([d \in Docs |-> IF d <= UploadDocs THEN 1 ELSE 0])
    /\ InitPipe
    /\ InitQuery

NextUpload ==
    \/ \E d \in Docs, m \in MediaTypes, n \in FileSizes : Receive(d, File(m, n))
    \/ \E d \in DOMAIN files : Submit(d)
    \/ \E d \in Docs : Exit(d, TRUE)
    \/ \E d \in Docs : Exit(d, FALSE)

SpecUpload == InitUpload /\ [][NextUpload]_vars

\* The media types the specification allows: pdf, doc, docx, txt, jpeg, png,
\* tiff, bmp, webp.
C21_Allowlist ==
    { "application/pdf", "application/msword",
      "application/vnd.openxmlformats-officedocument.wordprocessingml.document",
      "text/plain", "image/jpeg", "image/png", "image/tiff", "image/bmp",
      "image/webp" }

\* C21: an upload is let into the pipeline exactly when its declared media
\* type is in the allowlist and it has at most 10 MB; a refused upload has no
\* record and no job; every file the client's check accepts is accepted by
\* the server.
C21_UploadEntersIffAllowed ==
    \A d \in DOMAIN files :
        LET allowed == files[d].mimetype \in C21_Allowlist
                           /\ files[d].size <= 10 * 1024 * 1024
        IN  /\ (pc[d] # "rejected") <=> allowed
            /\ pc[d] = "rejected" => status[d] = "none"
            /\ status[d] # "none" => allowed
            /\ ClientAccepts(files[d]) => pc[d] # "rejected"

\* C22: a request in which the embedding of the documents to load, the
\* similarity search or the generation call failed ends with an error
\* response: it never returns an answer.
C22_QueryFailuresPropagate ==
    \A q \in Queries :
        (qs[q].failure \in {"embedding", "search", "generation"}
         /\ qs[q].at = "done")
            => (qs[q].outcome = "error" /\ qs[q].result.kind = "none")

\* C23: in every job, analysis and embedding are started only once the
\* extraction has returned its text, and the document is written completed
\* or failed only once both its analysis call and its embedding call have
\* returned or thrown.
C23_StepsStrictlyOrdered ==
    \A d \in Docs :
        /\ (ana[d] # "idle" \/ emb[d] # "idle") => extracted[d].got = "text"
        /\ status[d] \in Terminal => (ana[d] # "running" /\ emb[d] # "running")

\* -------------------------------- SpecInsert: uploads whose insert may fail

NextInsert ==
    \/ NextBackend
    \/ \E d \in Docs : InsertFails(d)

SpecInsert == InitBackend /\ [][NextInsert]_vars

\* Document d's job has been started, or a call of it has.
C24_Started(d) ==
    \/ pc[d] \in InTryCatch \cup {"deferredUser", "deferredGlobal", "done"}
    \/ extracted[d] # NoText
    \/ ana[d] # "idle"
    \/ emb[d] # "idle"

\* C24: the record of a document is inserted, with status processing, before
\* its job or any extraction, analysis or embedding call of it starts: a
\* started job has a record, the step that starts a job is the step after
\* which the record reads processing, and a file whose insert failed never
\* has a job.
C24_RecordBeforeWork ==
    /\ [](\A d \in Docs : C24_Started(d) => status[d] # "none")
    /\ [](\A d \in Docs : pc[d] = "noRecord" => (status[d] = "none" /\ ~C24_Started(d)))
    /\ [][\A d \in Docs : (~C24_Started(d) /\ C24_Started(d)') =>
            (status'[d] = "processing" /\ extracted'[d] = NoText
             /\ ana'[d] = "idle" /\ emb'[d] = "idle")]_vars

\* The insert for one file failed and it has no job, while another file of
\* the same user has its record and its extraction has returned.
C24_Witness ==
    \E d \in Docs, e \in Docs :
        /\ pc[d] = "noRecord"
        /\ status[d] = "none"
        /\ extracted[e].got = "text"
        /\ status[e] = "processing"

\* C25: a call of answerQuestion with a question that is no greeting takes
\* its context from exactly one place, by priority: the context of the
\* caller when there is one, else the platform knowledge when the question
\* is an application query, else a similarity search that returns at most
\* three passages when the store is set, else none; a search is made only in
\* the third case.
C25_ContextSourceByPriority ==
    LET r == qs[1]
    IN  (r.round > 0 /\ ~IsGreeting(r.asked)) =>
            /\ r.source =
                 IF r.ctxFrom # NoContract THEN "caller"
                 ELSE IF isApplicationQuery(r.asked) THEN "platform"
                 ELSE IF vectorStore.made THEN "index"
                 ELSE "none"
            /\ r.searches = IF r.source = "index" THEN 1 ELSE 0
            /\ r.source # "index" => (r.snap = {} /\ r.hits = {})
            /\ Cardinality(r.hits) <= SEARCH_K

\* A question that is an application query was answered from the platform
\* knowledge, with no search, while the store was set.
C25_Witness ==
    /\ qs[1].source = "platform"
    /\ qs[1].ctxFrom = NoContract
    /\ vectorStore.made
    /\ qs[1].searches = 0
    /\ qs[1].result.kind = "generated"

\* C26: when the OCR run gives fewer than 10 characters once trimmed,
\* enhancedOCR makes no call of the language model and returns the raw text
\* as the enhanced text with the summary "No significant text found"; the
\* document of such an image is never completed and is failed once its job
\* has ended.
C26_NearEmptyImageFails ==
    \A d \in DOMAIN ocr :
        (ocr[d].first \in OcrTexts /\ TrimLength(ocr[d].first) < 10) =>
            LET ocrResult == enhancedOCR(ocr[d].first, ocr[d].reply, ocr[d].second)
            IN  /\ ocr[d].reply = NotCalled
                /\ ocrResult.enhancedText = ocr[d].first
                /\ ocrResult.rawText = ocr[d].first
                /\ ocrResult.summary = "No significant text found"
                /\ extracted[d] = ocr[d].first
                /\ status[d] # "completed"
                /\ ana[d] = "idle" /\ emb[d] = "idle"
                /\ pc[d] = "done" => status[d] = "failed"

\* An image whose OCR text has nine characters has failed.
C26_Witness ==
    \E d \in DOMAIN ocr :
        /\ ocr[d].first \in OcrTexts
        /\ TrimLength(ocr[d].first) = 9
        /\ pc[d] = "done"
        /\ status[d] = "failed"

\* The sum of the per-user counters of the users in S.
RECURSIVE SumOfQueue(_)
SumOfQueue(S) ==
    IF S = {} THEN 0
    ELSE LET u == CHOOSE x \in S : TRUE
         IN  processingQueue[u] + SumOfQueue(S \ {u})

\* C27: the per-user counter equals the number of that user's admitted jobs
\* that have not run their cleanup, the global counter equals the number of
\* all such jobs, which is the sum of the per-user counters, and no counter
\* is negative; the cleanup's `delete at one or below, else decrement` never
\* leaves a counter above or below that number.
C27_CountersEqualActiveJobs ==
    /\ \A u \in Users :
          /\ processingQueue[u] = Cardinality(ActiveJobsOf(u))
          /\ processingQueue[u] >= 0
    /\ globalProcessingCount = Cardinality(ActiveJobs)
    /\ globalProcessingCount >= 0
    /\ globalProcessingCount = SumOfQueue(Users)

\* Both branches of the cleanup have run: one user's job has exited while
\* two more of that user's jobs hold slots, and another user's only job has
\* exited and left that user's counter at zero.
C27_Witness ==
    \E u, v \in Users :
      /\ u # v
      /\ processingQueue[u] >= 2
      /\ \E d \in Docs : owner[d] = u /\ pc[d] = "done"
      /\ processingQueue[v] = 0
      /\ \E d \in Docs : owner[d] = v /\ pc[d] = "done"

\* C28: every passage in a user's index belongs to a document whose status
\* is processing or completed; no passage of a failed document is in an
\* index, and none is added to one later.
C28_IndexHoldsNoFailedDocument ==
    \A u \in Users : \A d \in UserIndex(u) :
        status[d] \in {"processing", "completed"}

\* Document d's job has an extraction, analysis or embedding call that has
\* neither returned nor thrown.
C29_Outstanding(d) ==
    pc[d] = "admitted" \/ ana[d] = "running" \/ emb[d] = "running"

\* C29: a job that has run its cleanup and freed its slot has no extraction,
\* analysis or embedding call outstanding, so that the documents with an
\* outstanding call number at most MAX_CONCURRENT_PER_USER for each user and
\* at most MAX_GLOBAL_CONCURRENT overall.
C29_NoCallOutlivesItsSlot ==
    /\ \A d \in Docs : pc[d] = "done" => ~C29_Outstanding(d)
    /\ \A u \in Users :
          Cardinality({d \in Docs : owner[d] = u /\ C29_Outstanding(d)})
              <= MAX_CONCURRENT_PER_USER
    /\ Cardinality({d \in Docs : C29_Outstanding(d)}) <= MAX_GLOBAL_CONCURRENT

\* C30: a query that carries the id of a stored document is answered from
\* that document's content only when the requester owns the document; a
\* request that names a document of another user is rejected as not found,
\* makes no generation call and adds nothing to a chat session.
C30_OnlyOwnersQueryADocument ==
    \A q \in Queries :
        LET r == qs[q]
            c == r.contractId
        IN  (r.route = "query" /\ c \in Docs /\ status[c] # "none") =>
              /\ (r.source = "caller" /\ r.ctxFrom = c) => owner[c] = r.user
              /\ owner[c] # r.user =>
                    /\ r.gen = 0
                    /\ r.result.kind = "none"
                    /\ r.at = "done" => r.outcome = "notFound"
                    /\ <<c, r.user>> \notin chat_sessions

====
